---- MODULE Spec2Model ----
(***************************************************************************)
(* A model of src/iconFontCompiler.ts: the icon collector, the identifier  *)
(* registry (getUnique / getUniqueUnicode), the format orchestrator        *)
(* (generateIconFont) and the stylesheet rules of generateCSS.             *)
(*                                                                         *)
(* Strings are TLA+ strings (concatenated with \o) wherever the code only  *)
(* concatenates and compares them; strings the code parses (numeric        *)
(* attributes) are sequences of one-character strings.  An optional value  *)
(* (undefined in the code) is <<>> and a present value v is <<v>>.  A      *)
(* JavaScript number is a record [nan, v] so that NaN can be told apart.   *)
(***************************************************************************)
EXTENDS Integers, Sequences, FiniteSets, TLC

VARIABLES
    input,  \* the arguments of the compile invocations and the manifest text
    live,   \* the invocations that run
    st,     \* per invocation: its position, loop state, flags and CompileIconFontResult
    call    \* the last call of getUnique made on its own: its arguments and its outcome

vars == <<input, live, st, call>>

-----------------------------------------------------------------------------
(* Optional values and JavaScript numbers *)

None == <<>>

Some(v) == <<v>>

\* a ?? b
OrElse(a, b) == IF a = None THEN b ELSE a[1]

Num(n) == [nan |-> FALSE, v |-> n]

NaN == [nan |-> TRUE, v |-> 0]

DefaultStartUnicode == 59905   \* 0xea01

-----------------------------------------------------------------------------
(* Number parsing and formatting *)

HexLower == <<"0", "1", "2", "3", "4", "5", "6", "7", "8", "9", "a", "b", "c", "d", "e", "f">>

HexUpper == <<"0", "1", "2", "3", "4", "5", "6", "7", "8", "9", "A", "B", "C", "D", "E", "F">>

IsHexDigit(c) == \E k \in 1..16 : HexLower[k] = c \/ HexUpper[k] = c

HexValue(c) == (CHOOSE k \in 1..16 : HexLower[k] = c \/ HexUpper[k] = c) - 1

IsDecDigit(c) == \E k \in 1..10 : HexLower[k] = c

\* The longest prefix of s made of characters satisfying the digit test.
RECURSIVE DigitPrefixLen(_, _)
DigitPrefixLen(s, hex) ==
    IF s = <<>> THEN 0
    ELSE IF (IF hex THEN IsHexDigit(Head(s)) ELSE IsDecDigit(Head(s)))
         THEN 1 + DigitPrefixLen(Tail(s), hex)
         ELSE 0

RECURSIVE DigitsValue(_, _)
DigitsValue(s, base) ==
    IF s = <<>> THEN 0
    ELSE DigitsValue(SubSeq(s, 1, Len(s) - 1), base) * base + HexValue(s[Len(s)])

\* parseInt(s, 16): the leading hex digits, NaN when there are none.
parseInt16(s) ==
    LET n == DigitPrefixLen(s, TRUE)
    IN  IF n = 0 THEN NaN ELSE Num(DigitsValue(SubSeq(s, 1, n), 16))

\* parseFloat(s) on unsigned integer literals: the leading decimal digits,
\* NaN when there are none.
parseFloat(s) ==
    LET n == DigitPrefixLen(s, FALSE)
    IN  IF n = 0 THEN NaN ELSE Num(DigitsValue(SubSeq(s, 1, n), 10))

startsWith0x(s) == Len(s) >= 2 /\ s[1] = "0" /\ s[2] = "x"

\* parseNumber(value): value is an optional character sequence; the result
\* is an optional number.  The inputs of this model never end with "%".
parseNumber(value) ==
    IF value = None THEN None
    ELSE IF startsWith0x(value[1])
         THEN Some(parseInt16(SubSeq(value[1], 3, Len(value[1]))))
         ELSE Some(parseFloat(value[1]))

\* The code points of the characters that occur in the unicode attributes.
CodePointTable == [c \in {"A", "B", "0", "x"} |->
                      CASE c = "A" -> 65 [] c = "B" -> 66 [] c = "0" -> 48 [] c = "x" -> 120]

\* s.codePointAt(0): undefined for the empty string.
codePointAt0(s) == IF s = <<>> THEN None ELSE Some(Num(CodePointTable[s[1]]))

\* n.toString(16), written with the given digits
RECURSIVE toHex(_, _)
toHex(n, digits) ==
    IF n < 16 THEN digits[n + 1]
    ELSE toHex(n \div 16, digits) \o digits[(n % 16) + 1]

\* n.toString(16)
toString16(n) == toHex(n, HexLower)

-----------------------------------------------------------------------------
(* Paths (tutils/path): a path is [dir, name, ext] *)

Path(dir, name, ext) == [dir |-> dir, name |-> name, ext |-> ext]

\* getName(path, false): the base name without its extension
getName(path) == path.name

getDir(path) == path.dir

\* resolvePath(path, "..", src): src relative to the directory of path
resolvePath(path, src) == Path(path.dir, src.name, src.ext)

\* isGlob(src)
isGlob(src) == src.name = "*"

-----------------------------------------------------------------------------
(* Identifier registry *)

\* getUnique with a loop that tries the suffix -2 and never looks again.
getUniqueProbe_once(content, set, i) == content \o "-" \o ToString(i)

\* getUnique with a loop that starts at the suffix -3.
RECURSIVE getUniqueProbe_fromThree(_, _, _)
getUniqueProbe_fromThree(content, set, i) ==
    LET newContent == content \o "-" \o ToString(i + 1)
    IN  IF newContent \notin set THEN newContent
        ELSE getUniqueProbe_fromThree(content, set, i + 1)

\* The loop of getUnique: the first content-i, i = 2, 3, ..., not in set.
RECURSIVE getUniqueProbe(_, _, _)
getUniqueProbe(content, set, i) ==
    LET newContent == content \o "-" \o ToString(i)
    IN  IF newContent \notin set THEN newContent
        ELSE getUniqueProbe(content, set, i + 1)

\* getUnique(content, set): the value returned and the set afterwards.
getUnique(content, set) ==
    LET ret == IF content \in set THEN getUniqueProbe(content, set, 2) ELSE content
    IN  [ret |-> ret, set |-> set \cup {ret}]

\* getUniqueUnicode with an if in place of its while: one increment.
getUniqueUnicodeProbe_once(n, set) == IF n \in set THEN n + 1 ELSE n

\* The loop of getUniqueUnicode: the first of n, n + 1, ... not in set.
RECURSIVE getUniqueUnicodeProbe(_, _)
getUniqueUnicodeProbe(n, set) ==
    IF n \in set THEN getUniqueUnicodeProbe(n + 1, set) ELSE n

\* getUniqueUnicode(startUnicode, set): startUnicode is an optional number
\* (isNaN(undefined) is true); the value returned and the set afterwards.
getUniqueUnicode(startUnicode, set) ==
    LET start == IF startUnicode = None \/ startUnicode[1].nan
                 THEN DefaultStartUnicode
                 ELSE startUnicode[1].v
        ret == getUniqueUnicodeProbe(start, set)
    IN  [ret |-> ret, set |-> set \cup {ret}]

-----------------------------------------------------------------------------
(* Documents (xmldoc), sources and the file system (tutils/fileSystem).    *)
(* A text is represented by the node tree the XML parser builds from it.   *)

NoAttr ==
    [src |-> None, id |-> None, name |-> None, class |-> None, unicode |-> None,
     title |-> None, startUnicode |-> None, classNamePrefix |-> None, fontName |-> None]

Node(name, attr, children) == [name |-> name, attr |-> attr, children |-> children]

ManifestPath == Path("fixtures", "m", "iconfont")

\* The files of the directory of the manifest.
FileContent ==
    [n \in {"a", "b"} |->
        IF n = "a" THEN Node("svg", NoAttr, <<>>)
        ELSE Node("svg", [NoAttr EXCEPT !.id = Some("a"), !.unicode = Some(<<"0", "x", "4", "1">>)], <<>>)]

\* fs.readText(path): None when the read is rejected.
readText(path) ==
    IF path.name \in DOMAIN FileContent /\ path.ext = "svg"
    THEN Some(FileContent[path.name]) ELSE None

\* fs.glob(src, baseDir): the matches in the order the file system returns
\* them; None when the expansion is rejected.
glob(src, baseDir) ==
    IF src.ext = "svg"
    THEN Some(<<Path(baseDir, "b", "svg"), Path(baseDir, "a", "svg")>>)
    ELSE None

\* The default value of the formats parameter.
DefaultFormats == <<"eot", "ttf", "woff", "woff2", "css", "html">>

Formats == {"svgFont", "ttf", "eot", "woff", "woff2", "js", "svg", "css", "html"}

NoOptions == [startUnicode |-> None, classNamePrefix |-> None, fileName |-> None,
              fontName |-> None, hash |-> None]

-----------------------------------------------------------------------------
(* Bounded inputs *)

MaxChildren == 3

MaxFormats == 2

SeqsUpTo(S, n) == UNION {[1..k -> S] : k \in 0..n}

Src(name, ext) == [name |-> name, ext |-> ext]

Hex41 == <<"0", "x", "4", "1">>

\* Inline svg declarations of a manifest (and one child that is no svg).
InlineNodes ==
    {Node("svg", [NoAttr EXCEPT !.id = i, !.unicode = u], <<>>) :
        i \in {None, Some("a")}, u \in {None, Some(Hex41)}}
    \cup {Node("svg", [NoAttr EXCEPT !.id = Some("m-2")], <<>>),
          Node("svg", [NoAttr EXCEPT !.class = Some("a")], <<>>),
          Node("svg", [NoAttr EXCEPT !.name = Some("a")], <<>>),
          Node("svg", [NoAttr EXCEPT !.unicode = Some(<<"A">>), !.title = Some("t")], <<>>),
          Node("svg", [NoAttr EXCEPT !.unicode = Some(<<"0", "x">>)], <<>>),
          Node("svg", [NoAttr EXCEPT !.unicode = Some(<<>>)], <<>>),
          Node("path", NoAttr, <<>>)}

\* svg declarations with a src attribute: a file, a missing file, a glob
\* pattern, a glob pattern whose expansion is rejected.
SrcNodes ==
    {Node("svg", [NoAttr EXCEPT !.src = Some(s)], <<>>) :
        s \in {Src("a", "svg"), Src("missing", "svg"), Src("*", "svg"), Src("*", "bad")}}

-----------------------------------------------------------------------------
(* CompileIconFontResult and the icon collector *)

Invocations == {1, 2}

\* A CompileIconFontResult with nothing in it.
NoResult ==
    [icons |-> <<>>, dependencies |-> <<>>, globDependencies |-> <<>>,
     iconNames |-> {}, unicodes |-> {}, classNames |-> {},
     startUnicode |-> Num(DefaultStartUnicode),
     svgFont |-> None, ttf |-> None, eot |-> None, woff |-> None, woff2 |-> None,
     svg |-> None, js |-> None, css |-> None, html |-> None]

\* A result whose registry sets are shared by all the invocations (sets
\* kept at module level).
NewResult_sharedRegistry(startUnicode) ==
    [NoResult EXCEPT
        !.startUnicode = startUnicode,
        !.iconNames = UNION {st[j].result.iconNames : j \in {1, 2}},
        !.classNames = UNION {st[j].result.classNames : j \in {1, 2}},
        !.unicodes = UNION {st[j].result.unicodes : j \in {1, 2}}]

\* The object literal that starts a compile run: empty lists, new sets, the
\* start code point.
NewResult(startUnicode) == [NoResult EXCEPT !.startUnicode = startUnicode]

\* An invocation that has not been made yet.
Idle == [pc |-> "idle", idx |-> 0, pending |-> <<>>, flags |-> {}, result |-> NoResult]

\* processNode(icon, path, result): the result afterwards.
processNode(icon, path, result) ==
    IF icon.name = "svg"
    THEN LET n == getUnique(OrElse(icon.attr.id, getName(path)), result.iconNames)
             c == getUnique(OrElse(icon.attr.class, n.ret), result.classNames)
             explicit == icon.attr.unicode # None
             u == IF explicit
                  THEN getUniqueUnicode(
                           IF startsWith0x(icon.attr.unicode[1])
                           THEN parseNumber(icon.attr.unicode)
                           ELSE codePointAt0(icon.attr.unicode[1]),
                           result.unicodes)
                  ELSE getUniqueUnicode(Some(result.startUnicode), result.unicodes)
         IN  [result EXCEPT
                 !.iconNames = n.set,
                 !.classNames = c.set,
                 !.unicodes = u.set,
                 !.startUnicode = IF explicit THEN @ ELSE Num(u.ret),
                 !.icons = Append(@, [iconName |-> n.ret, className |-> c.ret,
                                      unicode |-> u.ret, autoUnicode |-> ~explicit,
                                      title |-> Some(OrElse(icon.attr.title, n.ret)),
                                      body |-> icon])]
    ELSE result

\* processFile(path, result, fs): the outcome (rejected when the read is)
\* and the result afterwards.
processFile(path, result) ==
    LET pushed == [result EXCEPT !.dependencies = Append(@, path)]
        content == readText(path)
    IN  IF content = None
        THEN [ok |-> FALSE, result |-> pushed]
        ELSE [ok |-> TRUE, result |-> processNode(content[1], path, pushed)]

\* The position after the children loop / the sources loop.
AfterItem(s, n) == IF s.idx >= n THEN "generate" ELSE "collect"

\* compileIconFont without the else branch: a root that is not the wrapper
\* tag is dropped.
CompileIconFont_rootDropped(i) ==
    /\ input.mode = "manifest"
    /\ st[i].pc = "idle"
    /\ LET rootNode == input.root
           attrs == rootNode.attr
           result == NewResult(OrElse(input.options.startUnicode,
                                      OrElse(parseNumber(attrs.startUnicode),
                                             Num(DefaultStartUnicode))))
       IN  st' = [st EXCEPT ![i] =
                    IF rootNode.name = "iconfont"
                    THEN [@ EXCEPT !.pc = IF rootNode.children = <<>> THEN "generate" ELSE "collect",
                                   !.idx = 1, !.result = result]
                    ELSE [@ EXCEPT !.pc = "generate", !.result = result]]
    /\ UNCHANGED <<input, live, call>>

\* compileIconFont up to its loop over the children of the root.
CompileIconFont(i) ==
    /\ input.mode = "manifest"
    /\ st[i].pc = "idle"
    /\ LET rootNode == input.root
           attrs == rootNode.attr
           result == NewResult(OrElse(input.options.startUnicode,
                                      OrElse(parseNumber(attrs.startUnicode),
                                             Num(DefaultStartUnicode))))
       IN  st' = [st EXCEPT ![i] =
                    IF rootNode.name = "iconfont"
                    THEN [@ EXCEPT !.pc = IF rootNode.children = <<>> THEN "generate" ELSE "collect",
                                   !.idx = 1, !.result = result]
                    ELSE [@ EXCEPT !.pc = "generate",
                                   !.result = processNode(rootNode, ManifestPath, result)]]
    /\ UNCHANGED <<input, live, call>>

\* The child the loop of compileIconFont is at.
ChildNode(i) == input.root.children[st[i].idx]

AtChild(i) ==
    /\ input.mode = "manifest"
    /\ st[i].pc = "collect"
    /\ st[i].pending = <<>>

\* A child that is no svg declaration is skipped.
SkipChild(i) ==
    /\ AtChild(i)
    /\ ChildNode(i).name # "svg"
    /\ st' = [st EXCEPT ![i].idx = @ + 1,
                        ![i].pc = AfterItem(st[i], Len(input.root.children))]
    /\ UNCHANGED <<input, live, call>>

\* A declaration without src: its own body is the icon.
ProcessInlineChild(i) ==
    /\ AtChild(i)
    /\ ChildNode(i).name = "svg"
    /\ ChildNode(i).attr.src = None
    /\ st' = [st EXCEPT ![i].idx = @ + 1,
                        ![i].pc = AfterItem(st[i], Len(input.root.children)),
                        ![i].result = processNode(ChildNode(i), ManifestPath, @)]
    /\ UNCHANGED <<input, live, call>>

\* A declaration with a literal src: one file.
ProcessFileChild(i) ==
    /\ AtChild(i)
    /\ ChildNode(i).name = "svg"
    /\ ChildNode(i).attr.src # None
    /\ ~isGlob(ChildNode(i).attr.src[1])
    /\ LET r == processFile(resolvePath(ManifestPath, ChildNode(i).attr.src[1]), st[i].result)
       IN  st' = [st EXCEPT ![i].idx = @ + 1,
                            ![i].pc = IF r.ok THEN AfterItem(st[i], Len(input.root.children))
                                      ELSE "failed",
                            ![i].result = r.result]
    /\ UNCHANGED <<input, live, call>>

\* A declaration whose src is a glob pattern: the pattern is recorded and
\* expanded; its matches are then processed one by one.
ExpandGlob(i) ==
    /\ AtChild(i)
    /\ ChildNode(i).name = "svg"
    /\ ChildNode(i).attr.src # None
    /\ isGlob(ChildNode(i).attr.src[1])
    /\ LET src == ChildNode(i).attr.src[1]
           baseDir == getDir(ManifestPath)
           matches == glob(src, baseDir)
           recorded == [st[i].result EXCEPT
                           !.globDependencies = Append(@, [glob |-> src, cwd |-> baseDir])]
       IN  st' = [st EXCEPT ![i] =
                    IF matches = None
                    THEN [@ EXCEPT !.pc = "failed", !.result = recorded]
                    ELSE IF matches[1] = <<>>
                         THEN [@ EXCEPT !.idx = @ + 1,
                                        !.pc = AfterItem(st[i], Len(input.root.children)),
                                        !.result = recorded]
                         ELSE [@ EXCEPT !.pending = matches[1], !.result = recorded]]
    /\ UNCHANGED <<input, live, call>>

ProcessGlobMatch(i) ==
    /\ input.mode = "manifest"
    /\ st[i].pc = "collect"
    /\ st[i].pending # <<>>
    /\ LET r == processFile(Head(st[i].pending), st[i].result)
           last == Len(st[i].pending) = 1
       IN  st' = [st EXCEPT ![i] =
                    IF ~r.ok
                    THEN [@ EXCEPT !.pc = "failed", !.result = r.result]
                    ELSE [@ EXCEPT !.pending = Tail(@),
                                   !.idx = IF last THEN @ + 1 ELSE @,
                                   !.pc = IF last THEN AfterItem(st[i], Len(input.root.children))
                                          ELSE "collect",
                                   !.result = r.result]]
    /\ UNCHANGED <<input, live, call>>

-----------------------------------------------------------------------------
(* compileIconFontFromSources *)

\* A source given as a path, and a source given as an object.
PathSource(path) ==
    [isString |-> TRUE, path |-> path, content |-> None,
     iconName |-> None, className |-> None, unicode |-> None]

ObjectSource(path, content, iconName, className, unicode) ==
    [isString |-> FALSE, path |-> path, content |-> content,
     iconName |-> iconName, className |-> className, unicode |-> unicode]

\* new String(content): a fresh String object, which carries the text and
\* none of the properties of the source object.
NewString(content) ==
    [iconName |-> None, className |-> None, unicode |-> None, body |-> content]

CompileIconFontFromSources(i) ==
    /\ input.mode = "sources"
    /\ st[i].pc = "idle"
    /\ st' = [st EXCEPT ![i] =
                [@ EXCEPT !.pc = IF input.sources = <<>> THEN "generate" ELSE "collect",
                          !.idx = 1,
                          !.result = NewResult(OrElse(input.options.startUnicode,
                                                      Num(DefaultStartUnicode)))]]
    /\ UNCHANGED <<input, live, call>>

SourceAt(i) == input.sources[st[i].idx]

\* A source that is a string: one file.
ProcessPathSource(i) ==
    /\ input.mode = "sources"
    /\ st[i].pc = "collect"
    /\ SourceAt(i).isString
    /\ LET r == processFile(SourceAt(i).path, st[i].result)
       IN  st' = [st EXCEPT ![i].idx = @ + 1,
                            ![i].pc = IF r.ok THEN AfterItem(st[i], Len(input.sources))
                                      ELSE "failed",
                            ![i].result = r.result]
    /\ UNCHANGED <<input, live, call>>

\* The body of the loop of compileIconFontFromSources for an object source
\* whose text is available: the result afterwards.
processObjectSource(source, content, result) ==
    LET icon == NewString(content)
        n == getUnique(OrElse(icon.iconName, getName(source.path)), result.iconNames)
        c == getUnique(OrElse(icon.className, n.ret), result.classNames)
        explicit == icon.unicode # None
        u == IF explicit
             THEN getUniqueUnicode(icon.unicode, result.unicodes)
             ELSE getUniqueUnicode(Some(result.startUnicode), result.unicodes)
    IN  [result EXCEPT
            !.iconNames = n.set,
            !.classNames = c.set,
            !.unicodes = u.set,
            !.startUnicode = IF explicit THEN @ ELSE Num(u.ret),
            !.icons = Append(@, [iconName |-> n.ret, className |-> c.ret,
                                 unicode |-> u.ret, autoUnicode |-> ~explicit,
                                 title |-> None, body |-> icon.body])]

\* A source that is an object: its content, or else the text of its path.
ProcessObjectSource(i) ==
    /\ input.mode = "sources"
    /\ st[i].pc = "collect"
    /\ ~SourceAt(i).isString
    /\ LET source == SourceAt(i)
           pushed == [st[i].result EXCEPT !.dependencies = Append(@, source.path)]
           content == IF source.content # None THEN source.content ELSE readText(source.path)
       IN  st' = [st EXCEPT ![i] =
                    IF content = None
                    THEN [@ EXCEPT !.pc = "failed", !.result = pushed]
                    ELSE [@ EXCEPT !.idx = @ + 1,
                                   !.pc = AfterItem(st[i], Len(input.sources)),
                                   !.result = processObjectSource(source, content[1], pushed)]]
    /\ UNCHANGED <<input, live, call>>

-----------------------------------------------------------------------------
(* generateIconFont *)

\* The switch with a js case that forgets the sprite.
FormatFlags_jsAlone(format) ==
    CASE format = "svgFont" -> {"svgFont"}
      [] format = "ttf"     -> {"ttf", "svgFont"}
      [] format = "eot"     -> {"eot", "ttf", "svgFont"}
      [] format = "woff"    -> {"woff", "ttf", "svgFont"}
      [] format = "woff2"   -> {"woff2", "ttf", "svgFont"}
      [] format = "js"      -> {"js"}
      [] format = "svg"     -> {"svg"}
      [] format = "css"     -> {"css"}
      [] format = "html"    -> {"html"}

\* The flags one case of the switch sets.
FormatFlags(format) ==
    CASE format = "svgFont" -> {"svgFont"}
      [] format = "ttf"     -> {"ttf", "svgFont"}
      [] format = "eot"     -> {"eot", "ttf", "svgFont"}
      [] format = "woff"    -> {"woff", "ttf", "svgFont"}
      [] format = "woff2"   -> {"woff2", "ttf", "svgFont"}
      [] format = "js"      -> {"js", "svg"}
      [] format = "svg"     -> {"svg"}
      [] format = "css"     -> {"css"}
      [] format = "html"    -> {"html"}

\* The flags after the loop over the requested formats.
Flags(formats) == UNION {FormatFlags(formats[k]) : k \in 1..Len(formats)}

\* The if statements with the script generated ahead of the sprite.
GenOrder_jsBeforeSvg == <<"svgFont", "ttf", "eot", "woff", "woff2", "js", "svg", "css", "html">>

\* The order of the if statements that follow the loop.
GenOrder == <<"svgFont", "ttf", "eot", "woff", "woff2", "svg", "js", "css", "html">>

GenIndex(format) == CHOOSE k \in 1..Len(GenOrder) : GenOrder[k] = format

\* The first if statement after position k whose flag is set; "return" when
\* there is none.
NextStage(k, flags) ==
    LET later == {j \in (k + 1)..Len(GenOrder) : GenOrder[j] \in flags}
    IN  IF later = {} THEN "return"
        ELSE GenOrder[CHOOSE j \in later : \A h \in later : j <= h]

AsPath(name) == Path("", name, "")

\* The options compileIconFont and compileIconFontFromSources hand to
\* generateIconFont: later properties of the object literal override.
GenerateOptions(startUnicode) ==
    IF input.mode = "manifest"
    THEN [fontName |-> IF input.options.fontName # None THEN input.options.fontName
                       ELSE Some(OrElse(input.root.attr.fontName, getName(ManifestPath))),
          startUnicode |-> IF input.options.startUnicode # None THEN input.options.startUnicode
                           ELSE Some(startUnicode),
          classNamePrefix |-> IF input.options.classNamePrefix # None
                              THEN input.options.classNamePrefix
                              ELSE input.root.attr.classNamePrefix,
          fileName |-> IF input.options.fileName # None THEN input.options.fileName
                       ELSE Some(ManifestPath),
          hash |-> input.options.hash]
    ELSE [input.options EXCEPT !.startUnicode = Some(startUnicode)]

\* The requested formats: the default list when the argument is omitted.
RequestedFormats == OrElse(input.formats, DefaultFormats)

\* generateIconFont up to its first if statement.
GenerateIconFont(i) ==
    /\ st[i].pc = "generate"
    /\ LET flags == Flags(RequestedFormats)
       IN  st' = [st EXCEPT ![i].flags = flags, ![i].pc = NextStage(0, flags)]
    /\ UNCHANGED <<input, live, call>>

\* generateSVGFont: one glyph per icon, named and mapped to its code point.
generateSVGFont(icons, options) ==
    [fontName |-> options.fontName,
     glyphs |-> [k \in 1..Len(icons) |->
                    [name |-> icons[k].iconName, unicode |-> icons[k].unicode]]]

\* A binary codec (svg2ttf, ttf2eot, ttf2woff, wawoff2.compress) applied to
\* the bytes it is given.
Encode(codec, bytes) == [codec |-> codec, of |-> bytes]

\* generateSVGSprite: one symbol per icon, whose id is the id of the body,
\* or the class name when the body has none.
generateSVGSprite(icons) ==
    [k \in 1..Len(icons) |->
        [symbol |-> IF icons[k].body.attr.id = None \/ icons[k].body.attr.id = Some("")
                    THEN icons[k].className
                    ELSE icons[k].body.attr.id[1]]]

\* generateJS: the script that injects the sprite.
generateJS(svg) == [inject |-> svg]

\* getName(options.fileName ?? options.fontName ?? "icon", false)
BaseName(options) ==
    getName(OrElse(options.fileName, AsPath(OrElse(options.fontName, "icon"))))

\* The selector prefix without the test for an empty prefix.
SelectorPrefix_alwaysHyphen(classNamePrefix) == classNamePrefix \o "-"

\* The selector prefix of generateCSS and generateHTML.
SelectorPrefix(classNamePrefix) ==
    IF classNamePrefix # "" THEN classNamePrefix \o "-" ELSE classNamePrefix

\* One rule of the stylesheet.
CSSRule(classNamePrefix, icon) ==
    "." \o SelectorPrefix(classNamePrefix) \o icon.className
        \o ":before { content: \"\\" \o toString16(icon.unicode) \o "\"; }"

\* generateCSS: the names the @font-face block and the base rule are built
\* from, and the rules of the icons, which the text joins with newlines.
generateCSS(icons, options) ==
    LET baseName == BaseName(options)
        classNamePrefix == OrElse(options.classNamePrefix, baseName)
    IN  [fontFamily |-> classNamePrefix,
         baseName |-> baseName,
         hash |-> OrElse(options.hash, ToString(Len(icons))),
         rules |-> [k \in 1..Len(icons) |-> CSSRule(classNamePrefix, icons[k])]]

\* generateHTML: the entries of the preview list.
generateHTML(icons, options) ==
    LET baseName == BaseName(options)
        classNamePrefix == OrElse(options.classNamePrefix, baseName)
    IN  [stylesheet |-> baseName \o ".css",
         entries |-> [k \in 1..Len(icons) |->
             [className |-> SelectorPrefix(classNamePrefix) \o icons[k].className,
              entity |-> "&#x" \o toString16(icons[k].unicode) \o ";",
              title |-> IF icons[k].title # None /\ icons[k].title # Some("")
                           /\ icons[k].title[1] # icons[k].className
                        THEN icons[k].title ELSE None,
              label |-> icons[k].className,
              code |-> "U+" \o toHex(icons[k].unicode, HexUpper),
              auto |-> icons[k].autoUnicode]]]

\* The if statement of an activated format has run and set its slot.
Generated(i, format, result) ==
    st' = [st EXCEPT ![i].result = result,
                     ![i].pc = NextStage(GenIndex(format), st[i].flags)]

GenSvgFont(i) ==
    /\ st[i].pc = "svgFont"
    /\ Generated(i, "svgFont",
           [st[i].result EXCEPT !.svgFont =
               Some(generateSVGFont(st[i].result.icons,
                                    GenerateOptions(st[i].result.startUnicode)))])
    /\ UNCHANGED <<input, live, call>>

GenTtf(i) ==
    /\ st[i].pc = "ttf"
    /\ st[i].result.svgFont # None
    /\ Generated(i, "ttf",
           [st[i].result EXCEPT !.ttf = Some(Encode("svg2ttf", st[i].result.svgFont[1]))])
    /\ UNCHANGED <<input, live, call>>

GenEot(i) ==
    /\ st[i].pc = "eot"
    /\ st[i].result.ttf # None
    /\ Generated(i, "eot",
           [st[i].result EXCEPT !.eot = Some(Encode("ttf2eot", st[i].result.ttf[1]))])
    /\ UNCHANGED <<input, live, call>>

GenWoff(i) ==
    /\ st[i].pc = "woff"
    /\ st[i].result.ttf # None
    /\ Generated(i, "woff",
           [st[i].result EXCEPT !.woff = Some(Encode("ttf2woff", st[i].result.ttf[1]))])
    /\ UNCHANGED <<input, live, call>>

GenWoff2(i) ==
    /\ st[i].pc = "woff2"
    /\ st[i].result.ttf # None
    /\ Generated(i, "woff2",
           [st[i].result EXCEPT !.woff2 = Some(Encode("wawoff2", st[i].result.ttf[1]))])
    /\ UNCHANGED <<input, live, call>>

GenSvg(i) ==
    /\ st[i].pc = "svg"
    /\ Generated(i, "svg",
           [st[i].result EXCEPT !.svg = Some(generateSVGSprite(st[i].result.icons))])
    /\ UNCHANGED <<input, live, call>>

GenJs(i) ==
    /\ st[i].pc = "js"
    /\ Generated(i, "js", [st[i].result EXCEPT !.js = Some(generateJS(st[i].result.svg))])
    /\ UNCHANGED <<input, live, call>>

GenCss(i) ==
    /\ st[i].pc = "css"
    /\ Generated(i, "css",
           [st[i].result EXCEPT !.css =
               Some(generateCSS(st[i].result.icons,
                                GenerateOptions(st[i].result.startUnicode)))])
    /\ UNCHANGED <<input, live, call>>

GenHtml(i) ==
    /\ st[i].pc = "html"
    /\ Generated(i, "html",
           [st[i].result EXCEPT !.html =
               Some(generateHTML(st[i].result.icons,
                                 GenerateOptions(st[i].result.startUnicode)))])
    /\ UNCHANGED <<input, live, call>>

\* The steps that call a binary codec; each may throw, and the ones that
\* read a slot throw when it is unset.
CodecStages == {"svgFont", "ttf", "eot", "woff", "woff2"}

\* A codec error that is caught and dropped: the slot stays unset and the
\* run goes on.
CodecFails_swallowed(i) ==
    /\ st[i].pc \in CodecStages
    /\ st' = [st EXCEPT ![i].pc = NextStage(GenIndex(st[i].pc), st[i].flags)]
    /\ UNCHANGED <<input, live, call>>

\* A codec throws: generateIconFont rejects, and so does the compile call.
CodecFails(i) ==
    /\ st[i].pc \in CodecStages
    /\ st' = [st EXCEPT ![i].pc = "failed"]
    /\ UNCHANGED <<input, live, call>>

\* return result: the caller holds the result from here on.
Return(i) ==
    /\ st[i].pc = "return"
    /\ st' = [st EXCEPT ![i].pc = "done"]
    /\ UNCHANGED <<input, live, call>>

-----------------------------------------------------------------------------
(* The inputs of a compile run, and the specifications *)

ChildNodes == InlineNodes \cup SrcNodes

Manifest(tag, attr, children, formats, options) ==
    [mode |-> "manifest", root |-> Node(tag, attr, children), sources |-> <<>>,
     formats |-> formats, options |-> options]

Sources(sources, formats, options) ==
    [mode |-> "sources", root |-> Node("iconfont", NoAttr, <<>>), sources |-> sources,
     formats |-> formats, options |-> options]

PlainContent == Node("svg", NoAttr, <<>>)

\* The declarations that compete for names and code points: with and without
\* id and unicode, the id the second anonymous icon would get, a name
\* attribute, a file and a glob pattern.
CoreNodes ==
    {Node("svg", [NoAttr EXCEPT !.id = i, !.unicode = u], <<>>) :
        i \in {None, Some("a")}, u \in {None, Some(Hex41)}}
    \cup {Node("svg", [NoAttr EXCEPT !.id = Some("m-2")], <<>>),
          Node("svg", [NoAttr EXCEPT !.name = Some("a")], <<>>)}
    \cup {Node("svg", [NoAttr EXCEPT !.src = Some(s)], <<>>) :
            s \in {Src("a", "svg"), Src("*", "svg")}}

\* The other declarations: unusual unicode attributes, a class, a child that
\* is no svg, a missing file, a rejected glob pattern.
EdgeNodes == ChildNodes \ CoreNodes

StartVariants ==
    {<<None, None>>, <<Some(<<"6", "5">>), None>>, <<Some(<<"6", "5">>), Some(Num(64))>>}

\* Manifests that exercise the registry: every sequence of core
\* declarations, a start code point from the default, the root attribute or
\* the options.
RegistryManifests ==
    {Manifest("iconfont", [NoAttr EXCEPT !.startUnicode = su[1]], children,
              Some(<<"css">>), [NoOptions EXCEPT !.startUnicode = su[2]]) :
        su \in StartVariants,
        children \in SeqsUpTo(CoreNodes, MaxChildren)}

\* Manifests with one of the other declarations, alone or next to ordinary
\* ones.
EdgeManifests ==
    {Manifest("iconfont", [NoAttr EXCEPT !.startUnicode = su[1]],
              before \o <<edge>> \o after,
              Some(<<"css">>), [NoOptions EXCEPT !.startUnicode = su[2]]) :
        su \in StartVariants,
        edge \in EdgeNodes,
        before \in {<<>>, <<PlainContent>>},
        after \in {<<>>, <<Node("svg", [NoAttr EXCEPT !.id = Some("a"), !.unicode = Some(Hex41)], <<>>)>>}}

\* The sources that compete for names and code points: two files, inline
\* content, supplied identities.
CoreSources ==
    {PathSource(Path("icons", n, "svg")) : n \in {"a", "b"}}
    \cup {ObjectSource(Path("icons", "a", "svg"), Some(PlainContent), None, None, None),
          ObjectSource(Path("icons", "a", "svg"), Some(PlainContent), None, None, Some(Num(65))),
          ObjectSource(Path("icons", "b", "svg"), Some(PlainContent), Some("a"), Some("a"),
                       Some(Num(65)))}

\* The other sources: missing files, an object without content, a supplied
\* icon name, a supplied class name.
EdgeSources ==
    {PathSource(Path("icons", "missing", "svg")),
     ObjectSource(Path("icons", "a", "svg"), None, None, None, None),
     ObjectSource(Path("icons", "missing", "svg"), None, None, None, None),
     ObjectSource(Path("icons", "a", "svg"), Some(PlainContent), Some("x"), None, None),
     ObjectSource(Path("icons", "a", "svg"), Some(PlainContent), None, Some("x"), None)}

SourceStartVariants == {None, Some(Num(65)), Some(NaN)}

\* Source lists that exercise the registry.
RegistrySources ==
    {Sources(sources, Some(<<"css">>), [NoOptions EXCEPT !.startUnicode = su]) :
        su \in SourceStartVariants,
        sources \in SeqsUpTo(CoreSources, MaxChildren)}

\* Source lists with one of the other sources, alone or next to ordinary
\* ones.
EdgeSourceLists ==
    {Sources(before \o <<edge>> \o after, Some(<<"css">>),
             [NoOptions EXCEPT !.startUnicode = su]) :
        su \in SourceStartVariants,
        edge \in EdgeSources,
        before \in {<<>>, <<PathSource(Path("icons", "a", "svg"))>>},
        after \in {<<>>, <<PathSource(Path("icons", "b", "svg"))>>}}

\* Documents whose root is not the wrapper tag.
RootManifests ==
    {Manifest(n.name, n.attr, <<>>, Some(<<"css">>), NoOptions) : n \in InlineNodes}

\* Runs that exercise the orchestrator: every format list, the omitted
\* format list, a few icons.
FormatLists == {None} \cup {Some(f) : f \in SeqsUpTo(Formats, MaxFormats)}

FormatInputs ==
    {Manifest("iconfont", NoAttr, children, formats, NoOptions) :
        formats \in FormatLists,
        children \in {<<>>, <<PlainContent>>, <<PlainContent, Node("svg", [NoAttr EXCEPT !.src = Some(Src("*", "svg"))], <<>>)>>}}
    \cup {Sources(<<PathSource(Path("icons", "a", "svg"))>>, formats, NoOptions) :
            formats \in FormatLists}

\* Runs that exercise the stylesheet: the class prefix from the root
\* attribute or the options, absent, empty or not.
StyleChildren ==
    {PlainContent,
     Node("svg", [NoAttr EXCEPT !.class = Some("warn")], <<>>),
     Node("svg", [NoAttr EXCEPT !.id = Some("warn"), !.unicode = Some(Hex41)], <<>>)}

StyleInputs ==
    {Manifest("iconfont", [NoAttr EXCEPT !.classNamePrefix = p[1]], children, Some(f),
              [NoOptions EXCEPT !.classNamePrefix = p[2], !.hash = p[3]]) :
        p \in {<<None, None, None>>, <<Some(""), None, None>>, <<Some("p"), None, None>>,
               <<Some("p"), Some(""), None>>, <<None, Some("q"), Some("h")>>},
        f \in {<<"css">>, <<"html", "css">>},
        children \in SeqsUpTo(StyleChildren, MaxChildren)}
    \cup {Sources(<<PathSource(Path("icons", "a", "svg"))>>, Some(<<"css">>),
                  [NoOptions EXCEPT !.classNamePrefix = p, !.fontName = n]) :
            p \in {None, Some("")}, n \in {None, Some("font")}}

Inputs == RegistryManifests \cup EdgeManifests \cup RegistrySources \cup EdgeSourceLists
          \cup RootManifests \cup FormatInputs \cup StyleInputs

NoCall == [candidate |-> "", before |-> {}, ret |-> "", after |-> {}, made |-> FALSE]

Init ==
    /\ input \in Inputs
    /\ live = {1}
    /\ st = [i \in Invocations |-> Idle]
    /\ call = NoCall

Next ==
    \/ \E i \in live : CompileIconFont(i)
    \/ \E i \in live : SkipChild(i)
    \/ \E i \in live : ProcessInlineChild(i)
    \/ \E i \in live : ProcessFileChild(i)
    \/ \E i \in live : ExpandGlob(i)
    \/ \E i \in live : ProcessGlobMatch(i)
    \/ \E i \in live : CompileIconFontFromSources(i)
    \/ \E i \in live : ProcessPathSource(i)
    \/ \E i \in live : ProcessObjectSource(i)
    \/ \E i \in live : GenerateIconFont(i)
    \/ \E i \in live : GenSvgFont(i)
    \/ \E i \in live : GenTtf(i)
    \/ \E i \in live : GenEot(i)
    \/ \E i \in live : GenWoff(i)
    \/ \E i \in live : GenWoff2(i)
    \/ \E i \in live : GenSvg(i)
    \/ \E i \in live : GenJs(i)
    \/ \E i \in live : GenCss(i)
    \/ \E i \in live : GenHtml(i)
    \/ \E i \in live : CodecFails(i)
    \/ \E i \in live : Return(i)

\* One compile invocation.
Spec == Init /\ [][Next]_vars

MaxTwinItems == 2

MaxTwinFormats == 1

\* Two invocations given the same arguments and the same file system, their
\* steps interleaved at will.
TwinInputs ==
    {x \in RegistryManifests \cup EdgeManifests \cup RegistrySources \cup EdgeSourceLists :
        Len(x.root.children) <= MaxTwinItems /\ Len(x.sources) <= MaxTwinItems}
    \cup {x \in FormatInputs : Len(OrElse(x.formats, <<>>)) <= MaxTwinFormats}

InitTwin ==
    /\ input \in TwinInputs
    /\ live = Invocations
    /\ st = [i \in Invocations |-> Idle]
    /\ call = NoCall

SpecTwin == InitTwin /\ [][Next]_vars

-----------------------------------------------------------------------------
(* getUnique on its own: any candidate against any set of used strings *)

MaxNames == 5

NameCandidates == {"a", "a-2", "b"}

UsedNames == SUBSET {"a", "a-2", "a-3", "a-2-2", "b"}

CallGetUnique ==
    /\ Cardinality(call.after) < MaxNames
    /\ \E candidate \in NameCandidates :
          LET r == getUnique(candidate, call.after)
          IN  call' = [candidate |-> candidate, before |-> call.after,
                       ret |-> r.ret, after |-> r.set, made |-> TRUE]
    /\ UNCHANGED <<input, live, st>>

InitUnique ==
    /\ input = Sources(<<>>, None, NoOptions)
    /\ live = {}
    /\ st = [i \in Invocations |-> Idle]
    /\ \E used \in UsedNames : call = [NoCall EXCEPT !.after = used]

NextUnique == CallGetUnique

SpecUnique == InitUnique /\ [][NextUnique]_vars

-----------------------------------------------------------------------------
(* Properties *)

Icons(i) == st[i].result.icons

IconIndices(i) == 1..Len(Icons(i))

\* C1: at every point of a compile run, in manifest mode and in source-list
\* mode, the icons collected so far have pairwise distinct icon names,
\* pairwise distinct class names and pairwise distinct code points, and each
\* of these values is in the registry set it was allocated from.
C1_UniqueIdentities ==
    \A i \in Invocations :
        /\ \A j, k \in IconIndices(i) :
              j # k => /\ Icons(i)[j].iconName # Icons(i)[k].iconName
                       /\ Icons(i)[j].className # Icons(i)[k].className
                       /\ Icons(i)[j].unicode # Icons(i)[k].unicode
        /\ \A k \in IconIndices(i) :
              /\ Icons(i)[k].iconName \in st[i].result.iconNames
              /\ Icons(i)[k].className \in st[i].result.classNames
              /\ Icons(i)[k].unicode \in st[i].result.unicodes

\* A finished run of three icons with the same name candidate and the same
\* explicit code point, all three disambiguated.
C1_Witness ==
    /\ st[1].pc = "done"
    /\ Len(Icons(1)) = 3
    /\ \A k \in 1..3 : Icons(1)[k].body.attr.id = Some("a")
                       /\ Icons(1)[k].body.attr.unicode = Some(Hex41)
    /\ Icons(1)[3].iconName = "a-3"
    /\ Icons(1)[3].unicode = 67

\* C2: a call getUnique(candidate, set) returns a value that was not in the
\* set at call time and leaves the set with exactly that value added; the
\* value is the candidate when the candidate was free, and otherwise the
\* candidate followed by -k for the smallest k >= 2 whose string was free.
C2_GetUnique ==
    call.made =>
        /\ call.ret \notin call.before
        /\ call.after = call.before \cup {call.ret}
        /\ call.candidate \notin call.before => call.ret = call.candidate
        /\ call.candidate \in call.before =>
              \E k \in 2..(Cardinality(call.before) + 2) :
                  /\ call.ret = call.candidate \o "-" \o ToString(k)
                  /\ \A j \in 2..(k - 1) :
                        (call.candidate \o "-" \o ToString(j)) \in call.before

\* A call whose candidate and whose -2 form were both used: it returns -3.
C2_Witness ==
    /\ call.made
    /\ call.candidate = "a"
    /\ {"a", "a-2"} \subseteq call.before
    /\ call.ret = "a-3"

\* The start code point of the run: the option, else the root attribute
\* (manifest mode), else the default.
StartCodePoint ==
    OrElse(input.options.startUnicode,
           IF input.mode = "manifest"
           THEN OrElse(parseNumber(input.root.attr.startUnicode), Num(DefaultStartUnicode))
           ELSE Num(DefaultStartUnicode))

\* The code points held by the icons visited before the k-th.
HeldBefore(i, k) == {Icons(i)[j].unicode : j \in 1..(k - 1)}

\* The least code point from n on that is not in used.
LeastFree(n, used) ==
    CHOOSE c \in n..(n + Cardinality(used)) :
        c \notin used /\ \A d \in n..(c - 1) : d \in used

\* The value of the cursor (result.startUnicode) when the k-th icon is
\* visited: the code point of the last auto-allocated icon before it, or
\* the start code point when there is none.
CursorBefore(i, k) ==
    LET autos == {j \in 1..(k - 1) : Icons(i)[j].autoUnicode}
    IN  IF autos = {} THEN StartCodePoint.v
        ELSE Icons(i)[CHOOSE j \in autos : \A h \in autos : h <= j].unicode

\* The k-th icon is auto-allocated and visited after an icon declared with
\* unicode="0x41".
AutoAfterExplicit41(i, k) ==
    /\ Icons(i)[k].autoUnicode
    /\ \E j \in 1..(k - 1) : Icons(i)[j].body.attr.unicode = Some(Hex41)

\* With a numeric start, every auto-allocated icon holds the least code
\* point from the start on that no icon visited before it holds.
AutoCodePointsInOrder ==
    \A i \in Invocations : \A k \in IconIndices(i) :
        (~StartCodePoint.nan /\ Icons(i)[k].autoUnicode) =>
            Icons(i)[k].unicode = LeastFree(StartCodePoint.v, HeldBefore(i, k))

\* An auto-allocated icon visited after an icon declared with unicode="0x41"
\* never holds 0x41.
AutoNever41 ==
    \A i \in Invocations : \A k \in IconIndices(i) :
        AutoAfterExplicit41(i, k) => Icons(i)[k].unicode # 65

\* The k-th icon is auto-allocated, an icon declared with unicode="0x41"
\* and holding 0x41 was visited before it, and the cursor is at 0x41.
AutoAtCursor41(i, k) ==
    /\ ~StartCodePoint.nan
    /\ Icons(i)[k].autoUnicode
    /\ \E j \in 1..(k - 1) : /\ Icons(i)[j].body.attr.unicode = Some(Hex41)
                             /\ Icons(i)[j].unicode = 65
    /\ CursorBefore(i, k) = 65

\* C3 as stated: the auto-allocated icons hold start, start+1, ... without
\* the points reserved before them; an auto-allocated icon after an icon
\* with unicode="0x41" never holds 0x41, and holds 0x42 when the cursor had
\* reached 0x41.
C3_Original ==
    /\ AutoCodePointsInOrder
    /\ AutoNever41
    /\ \A i \in Invocations : \A k \in IconIndices(i) :
          AutoAtCursor41(i, k) => Icons(i)[k].unicode = 66

\* C3 (amended): as stated, except that with the cursor at 0x41 the icon
\* holds the least code point above 0x41 that no earlier icon holds, which
\* is 0x42 when no earlier icon holds 0x42.
C3_AutoAllocation ==
    /\ AutoCodePointsInOrder
    /\ AutoNever41
    /\ \A i \in Invocations : \A k \in IconIndices(i) :
          AutoAtCursor41(i, k) =>
              /\ Icons(i)[k].unicode = LeastFree(66, HeldBefore(i, k))
              /\ 66 \notin HeldBefore(i, k) => Icons(i)[k].unicode = 66

\* A finished run that starts at 0x41: an icon with unicode="0x41" takes
\* 0x41 and the auto-allocated icon after it, its cursor at 0x41, takes 0x42.
C3_Witness ==
    /\ st[1].pc = "done"
    /\ StartCodePoint = Num(65)
    /\ Len(Icons(1)) = 3
    /\ Icons(1)[1].body.attr.unicode = Some(Hex41) /\ Icons(1)[1].unicode = 65
    /\ Icons(1)[2].autoUnicode /\ CursorBefore(1, 2) = 65 /\ Icons(1)[2].unicode = 66
    /\ Icons(1)[3].autoUnicode /\ Icons(1)[3].unicode = 67

\* The output slots of the result that are set.
SlotsSet(i) == {f \in Formats : st[i].result[f] # None}

\* What a format is generated from.
GeneratedFrom(f) ==
    CASE f = "ttf" -> {"svgFont"}
      [] f \in {"eot", "woff", "woff2"} -> {"ttf"}
      [] f = "js" -> {"svg"}
      [] OTHER -> {}

\* The least set that contains S and what each of its formats is generated
\* from.
RECURSIVE DependencyClosure(_)
DependencyClosure(S) ==
    LET T == S \cup UNION {GeneratedFrom(f) : f \in S}
    IN  IF T = S THEN S ELSE DependencyClosure(T)

Requested == {RequestedFormats[k] : k \in 1..Len(RequestedFormats)}

\* C4: when generateIconFont has succeeded and the result is returned, the
\* slots that are set are exactly the dependency closure of the requested
\* formats; requesting only woff2 sets svgFont, ttf and woff2 and nothing
\* else.
C4_SlotsAreClosure ==
    \A i \in Invocations :
        st[i].pc = "done" =>
            /\ SlotsSet(i) = DependencyClosure(Requested)
            /\ input.formats = Some(<<"woff2">>) => SlotsSet(i) = {"svgFont", "ttf", "woff2"}

\* A finished run that was asked for woff2 alone.
C4_Witness ==
    /\ st[1].pc = "done"
    /\ input.formats = Some(<<"woff2">>)
    /\ SlotsSet(1) = {"svgFont", "ttf", "woff2"}
    /\ st[1].result.eot = None /\ st[1].result.css = None

\* C5: compileIconFont called without the formats argument returns a result
\* whose svg, ttf, eot, woff, woff2, css and html fields are all set.
C5_DefaultFormatsSetAll ==
    \A i \in Invocations :
        (st[i].pc = "done" /\ input.mode = "manifest" /\ input.formats = None) =>
            {"svg", "ttf", "eot", "woff", "woff2", "css", "html"} \subseteq SlotsSet(i)

NamedA == Node("svg", [NoAttr EXCEPT !.name = Some("a")], <<>>)

\* C6: the manifest <iconfont><svg name="a"/><svg name="a"/></iconfont>
\* compiled with no options yields two icons named a and a-2, with code
\* points 0xea01 and 0xea02, both auto-allocated.
C6_NameAttribute ==
    \A i \in Invocations :
        (/\ st[i].pc = "done"
         /\ input.mode = "manifest"
         /\ input.root = Node("iconfont", NoAttr, <<NamedA, NamedA>>)
         /\ input.options = NoOptions) =>
            /\ Len(Icons(i)) = 2
            /\ Icons(i)[1].iconName = "a" /\ Icons(i)[2].iconName = "a-2"
            /\ Icons(i)[1].unicode = 59905 /\ Icons(i)[2].unicode = 59906
            /\ Icons(i)[1].autoUnicode /\ Icons(i)[2].autoUnicode

\* C7: in source-list mode the iconName, className and unicode an object
\* source supplies are the candidates of the allocation: the icon holds the
\* supplied value when no earlier icon holds it and another value when one
\* does, and an icon whose source supplies a unicode is not marked
\* autoUnicode.
C7_SuppliedIdentity ==
    \A i \in Invocations :
        (st[i].pc = "done" /\ input.mode = "sources" /\ Len(Icons(i)) = Len(input.sources)) =>
            \A k \in IconIndices(i) :
                LET source == input.sources[k]
                    icon == Icons(i)[k]
                IN  ~source.isString =>
                      /\ source.iconName # None =>
                            (icon.iconName = source.iconName[1]
                                <=> \A j \in 1..(k - 1) : Icons(i)[j].iconName # source.iconName[1])
                      /\ source.className # None =>
                            (icon.className = source.className[1]
                                <=> \A j \in 1..(k - 1) : Icons(i)[j].className # source.className[1])
                      /\ source.unicode # None =>
                            /\ ~icon.autoUnicode
                            /\ (~source.unicode[1].nan /\ source.unicode[1].v \notin HeldBefore(i, k))
                                  => icon.unicode = source.unicode[1].v

\* Every file the run has to read can be read and every glob pattern it has
\* to expand can be expanded.
AllSourcesReadable ==
    IF input.mode = "manifest"
    THEN input.root.name = "iconfont" =>
            \A k \in 1..Len(input.root.children) :
                LET child == input.root.children[k]
                IN  (child.name = "svg" /\ child.attr.src # None) =>
                        IF isGlob(child.attr.src[1])
                        THEN LET matches == glob(child.attr.src[1], getDir(ManifestPath))
                             IN  /\ matches # None
                                 /\ \A m \in 1..Len(matches[1]) : readText(matches[1][m]) # None
                        ELSE readText(resolvePath(ManifestPath, child.attr.src[1])) # None
    ELSE \A k \in 1..Len(input.sources) :
            LET source == input.sources[k]
            IN  (source.isString \/ source.content = None) => readText(source.path) # None

\* C8: a compile invocation returns a result only when every requested and
\* implied artifact slot is set and every file read and glob expansion has
\* succeeded; an invocation in which a codec step, a read or a glob has
\* failed stays failed and never returns a result.
C8_AllOrNothing ==
    /\ [](\A i \in Invocations :
            st[i].pc = "done" =>
                /\ DependencyClosure(Requested) \subseteq SlotsSet(i)
                /\ AllSourcesReadable)
    /\ [][\A i \in Invocations : st[i].pc = "failed" => st'[i].pc = "failed"]_vars

\* A run that failed in a codec after other artifacts were generated: the
\* partly filled result is not returned.
C8_Witness ==
    /\ st[1].pc = "failed"
    /\ st[1].result.ttf # None
    /\ "woff2" \in st[1].flags
    /\ st[1].result.woff2 = None

\* The class prefix in force: the option, else the root attribute (manifest
\* mode), else the base name of the output file.
PrefixInForce ==
    IF input.options.classNamePrefix # None THEN input.options.classNamePrefix[1]
    ELSE IF input.mode = "manifest"
         THEN OrElse(input.root.attr.classNamePrefix, ManifestPath.name)
         ELSE OrElse(input.options.fontName, "icon")

\* The selector of an icon: prefix-className, or className when the prefix
\* is empty.
Selector(icon) ==
    IF PrefixInForce = "" THEN icon.className ELSE PrefixInForce \o "-" \o icon.className

\* The hexadecimal numerals of the code points 0x40..0x4f and 0xea00..0xea0f.
HexNumeral(n) ==
    IF n \in 64..79 THEN "4" \o HexLower[n - 63]
    ELSE IF n \in 59904..59919 THEN "ea0" \o HexLower[n - 59903]
    ELSE "?"

\* The stylesheet has one rule per icon, in the order of the icon list, and
\* the rule of each icon is its selector, the given pseudo-element and its
\* code point.
RulesAre(i, pseudo) ==
    st[i].result.css # None =>
        LET rules == st[i].result.css[1].rules
        IN  /\ Len(rules) = Len(Icons(i))
            /\ \A k \in IconIndices(i) :
                  rules[k] = "." \o Selector(Icons(i)[k]) \o pseudo \o " { content: \"\\"
                                 \o HexNumeral(Icons(i)[k].unicode) \o "\"; }"

WarnIcon(i, k) ==
    /\ st[i].result.css # None
    /\ k \in IconIndices(i)
    /\ Icons(i)[k].className = "warn"
    /\ Icons(i)[k].unicode = 59905
    /\ PrefixInForce = ""

\* C9 as stated: the rules use the pseudo-element ::before; the rule of
\* class warn with an empty prefix and code point 0xea01 is
\* .warn::before { content: "\ea01"; }.
C9_Original ==
    \A i \in Invocations :
        /\ RulesAre(i, "::before")
        /\ \A k \in 1..MaxChildren :
              WarnIcon(i, k) =>
                  st[i].result.css[1].rules[k] = ".warn::before { content: \"\\ea01\"; }"

\* C9 (amended): the same, with the pseudo-element written :before, as
\* generateCSS writes it; the rule of class warn with an empty prefix and
\* code point 0xea01 is .warn:before { content: "\ea01"; }.
C9_StylesheetRules ==
    \A i \in Invocations :
        /\ RulesAre(i, ":before")
        /\ \A k \in 1..MaxChildren :
              WarnIcon(i, k) =>
                  st[i].result.css[1].rules[k] = ".warn:before { content: \"\\ea01\"; }"

\* A returned stylesheet of two rules: class warn at 0xea01 under an empty
\* prefix, then a second icon.
C9_Witness ==
    /\ st[1].pc = "done"
    /\ WarnIcon(1, 1)
    /\ Len(st[1].result.css[1].rules) = 2
    /\ st[1].result.css[1].rules[1] = ".warn:before { content: \"\\ea01\"; }"

\* The identity of an icon.
Identity(icon) ==
    [iconName |-> icon.iconName, className |-> icon.className,
     unicode |-> icon.unicode, autoUnicode |-> icon.autoUnicode]

Collected(i) == st[i].pc \notin {"idle", "collect", "failed"}

\* C10: two invocations given the same arguments and the same file system
\* answers, their steps interleaved in any way, end collection with the
\* same icon list: as many icons, in the same order, with the same
\* iconName, className, unicode and autoUnicode at each position.
C10_SameIconLists ==
    (Collected(1) /\ Collected(2)) =>
        /\ Len(Icons(1)) = Len(Icons(2))
        /\ \A k \in IconIndices(1) : Identity(Icons(1)[k]) = Identity(Icons(2)[k])

\* Both invocations have returned, each with icons that had to be
\* disambiguated.
C10_Witness ==
    /\ st[1].pc = "done" /\ st[2].pc = "done"
    /\ Len(Icons(1)) >= 2
    /\ Icons(1)[2].iconName = "a-2"
    /\ Icons(2)[2].unicode = 66

\* The artifact slot f of invocation i is set.
IsSet(i, f) == st[i].result[f] # None

\* C11: in every run of generateIconFont each activated artifact is
\* generated at most once, however often it is requested or implied: a slot
\* is written only while it is unset, and the step that is about to generate
\* an artifact finds its slot unset. Generation respects the dependency
\* order: the step that sets ttf finds svgFont set, the steps that set eot,
\* woff and woff2 find ttf set, the step that sets js finds svg set; so in
\* every reachable state ttf set implies svgFont set, each of eot, woff and
\* woff2 set implies ttf set, and js set implies svg set.
C11_OnceInDependencyOrder ==
    /\ [](\A i \in Invocations :
            /\ st[i].pc \in Formats => ~IsSet(i, st[i].pc)
            /\ \A f \in Formats : IsSet(i, f) => \A g \in GeneratedFrom(f) : IsSet(i, g))
    /\ [][\A i \in Invocations : \A f \in Formats :
            st'[i].result[f] # st[i].result[f] =>
                /\ ~IsSet(i, f)
                /\ st[i].pc = f
                /\ \A g \in GeneratedFrom(f) : IsSet(i, g)]_vars

\* A finished run asked for woff and woff2, which both imply ttf and the
\* font container: both are transforms of the one ttf, itself a transform of
\* the one font container.
C11_Witness ==
    /\ st[1].pc = "done"
    /\ input.formats = Some(<<"woff", "woff2">>)
    /\ IsSet(1, "svgFont") /\ IsSet(1, "ttf") /\ IsSet(1, "woff") /\ IsSet(1, "woff2")
    /\ st[1].result.woff[1].of = st[1].result.ttf[1]
    /\ st[1].result.woff2[1].of = st[1].result.ttf[1]
    /\ st[1].result.ttf[1].of = st[1].result.svgFont[1]

\* The run of invocation i was given a document whose root is not the
\* wrapper tag, and is past collection.
RootCollected(i) ==
    /\ input.mode = "manifest"
    /\ input.root.name # "iconfont"
    /\ st[i].pc # "idle"

\* The icon list of invocation i is the one icon built from the root node:
\* its name is the id of the root or else the name of the document, its
\* class the class attribute or else its name, its code point the start code
\* point when the root declares none, and all three are registered.
RootIsTheIcon(i) ==
    /\ Len(Icons(i)) = 1
    /\ LET icon == Icons(i)[1]
           root == input.root
       IN  /\ icon.body = root
           /\ icon.iconName = OrElse(root.attr.id, getName(ManifestPath))
           /\ icon.className = OrElse(root.attr.class, icon.iconName)
           /\ icon.autoUnicode <=> root.attr.unicode = None
           /\ root.attr.unicode = None => icon.unicode = StartCodePoint.v
           /\ root.attr.unicode = Some(Hex41) => icon.unicode = 65
           /\ st[i].result.iconNames = {icon.iconName}
           /\ st[i].result.classNames = {icon.className}
           /\ st[i].result.unicodes = {icon.unicode}

\* C12 as stated: for every document whose root is not the wrapper tag,
\* after collection the icon list is exactly one icon, built from the root
\* node, with allocated name, class and code point.
C12_Original ==
    \A i \in Invocations : RootCollected(i) => RootIsTheIcon(i)

\* C12 (amended): for every document whose root is an svg node, after
\* collection the icon list is exactly one icon, built from the root node,
\* with allocated name, class and code point; for a root that is neither
\* the wrapper tag nor svg the icon list is empty and nothing is registered.
C12_RootDocument ==
    \A i \in Invocations :
        RootCollected(i) =>
            IF input.root.name = "svg"
            THEN RootIsTheIcon(i)
            ELSE /\ Icons(i) = <<>>
                 /\ st[i].result.iconNames = {}
                 /\ st[i].result.classNames = {}
                 /\ st[i].result.unicodes = {}

\* A finished run on the document <svg id="a" unicode="0x41"/>: one icon,
\* the root, named a at 0x41.
C12_Witness ==
    /\ st[1].pc = "done"
    /\ input.mode = "manifest"
    /\ input.root = Node("svg", [NoAttr EXCEPT !.id = Some("a"), !.unicode = Some(Hex41)], <<>>)
    /\ Len(Icons(1)) = 1
    /\ Icons(1)[1].body = input.root
    /\ Icons(1)[1].iconName = "a"
    /\ Icons(1)[1].unicode = 65

====
